---- MODULE Spec2Model ----
(***************************************************************************)
(* nbssh: the Address value type (parse, Display, serde) and the ssh       *)
(* command-line builder SshParams::command.                                *)
(*                                                                         *)
(* Text is modelled as a sequence of one-character strings, so that        *)
(* splitting, number parsing and number formatting are computed character  *)
(* by character as the Rust code (and the std routines it calls) do.       *)
(* Option<T> is a sequence of length 0 (None) or 1 (Some).                 *)
(* Result<T,E> is a record tagged "Ok" or "Err".                           *)
(***************************************************************************)
EXTENDS Integers, Sequences, FiniteSets, TLC

VARIABLES input, parsed, addr, shown, token, decoded,
          self, args, output,
          addresses, idx, result, ret

addrVars == <<input, parsed, addr, shown, token, decoded>>
cmdVars == <<self, args, output>>
vecVars == <<addresses, idx, result, ret>>
vars == <<input, parsed, addr, shown, token, decoded, self, args, output, addresses, idx, result, ret>>

-----------------------------------------------------------------------------
(* Bounds of the explored input space.                                     *)

MaxLen == 4
MaxDigits == 5
MaxArgs == 2
MaxVec == 3

-----------------------------------------------------------------------------
(* Option and Result.                                                      *)

None == <<>>
Some(x) == <<x>>
Ok(v) == [tag |-> "Ok", val |-> v]
Err(e) == [tag |-> "Err", err |-> e]

InvalidFormat == "InvalidFormat"
InvalidPort == "InvalidPort"

DEFAULT_SSH_PORT == 22
U16_MAX == 65535

-----------------------------------------------------------------------------
(* Characters and std text routines.                                       *)

DigitChars == <<"0", "1", "2", "3", "4", "5", "6", "7", "8", "9">>
IsDigit(c) == \E d \in 1..10 : DigitChars[d] = c
to_digit(c) == (CHOOSE d \in 1..10 : DigitChars[d] = c) - 1

\* u16::from_str (core::num, radix 10): an empty string is an error; one
\* leading '+' is skipped (a '-' is not, for an unsigned type); no digit
\* left is an error; each character must be a digit; the value is built
\* with checked_mul / checked_add, so exceeding u16::MAX is an error.
RECURSIVE from_digits(_, _, _)
from_digits(digits, i, acc) ==
    IF i > Len(digits) THEN Ok(acc)
    ELSE IF ~IsDigit(digits[i]) THEN Err("InvalidDigit")
    ELSE IF acc * 10 > U16_MAX THEN Err("PosOverflow")
    ELSE IF acc * 10 + to_digit(digits[i]) > U16_MAX THEN Err("PosOverflow")
    ELSE from_digits(digits, i + 1, acc * 10 + to_digit(digits[i]))

\* The value of a digit string read into an integer wide enough never to
\* overflow here.
RECURSIVE wide_value(_, _, _)
wide_value(digits, i, acc) ==
    IF i > Len(digits) THEN Ok(acc)
    ELSE IF ~IsDigit(digits[i]) THEN Err("InvalidDigit")
    ELSE wide_value(digits, i + 1, acc * 10 + to_digit(digits[i]))

parse_u16_wrapping(src) ==
    IF src = <<>> THEN Err("Empty")
    ELSE LET digits == IF src[1] = "+" THEN Tail(src) ELSE src
             v == wide_value(digits, 1, 0)
         IN IF digits = <<>> THEN Err("Empty")
            ELSE IF v.tag = "Ok" THEN Ok(v.val % (U16_MAX + 1)) ELSE v

parse_u16_as_u32(src) ==
    IF src = <<>> THEN Err("Empty")
    ELSE LET digits == IF src[1] = "+" THEN Tail(src) ELSE src
         IN IF digits = <<>> THEN Err("Empty") ELSE wide_value(digits, 1, 0)

parse_u16(src) ==
    IF src = <<>> THEN Err("Empty")
    ELSE LET digits == IF src[1] = "+" THEN Tail(src) ELSE src
         IN IF digits = <<>> THEN Err("Empty") ELSE from_digits(digits, 1, 0)

\* <u16 as Display>::fmt: decimal digits, most significant first, no padding.
RECURSIVE to_string(_)
to_string(n) ==
    IF n < 10 THEN <<DigitChars[n + 1]>>
    ELSE to_string(n \div 10) \o <<DigitChars[(n % 10) + 1]>>

\* str::split(':').collect(): the pieces between separators, in order; a
\* string without the separator (the empty string too) gives one piece.
RECURSIVE split(_, _)
split(s, sep) ==
    IF \A i \in 1..Len(s) : s[i] # sep THEN <<s>>
    ELSE LET i == CHOOSE k \in 1..Len(s) : s[k] = sep /\ \A j \in 1..(k - 1) : s[j] # sep
         IN <<SubSeq(s, 1, i - 1)>> \o split(SubSeq(s, i + 1, Len(s)), sep)

-----------------------------------------------------------------------------
(* Address (lib.rs): host and optional port.                               *)

Address_new(host, port) == [host |-> host, port |-> Some(port)]

from_host(host) == [host |-> host, port |-> None]

parse_default_port(address) ==
    LET parts == split(address, ":")
    IN IF Len(parts) = 2
       THEN LET p == parse_u16(parts[2])
            IN IF p.tag = "Ok" THEN Ok(Address_new(parts[1], p.val)) ELSE Err(InvalidPort)
       ELSE IF Len(parts) = 1 THEN Ok(Address_new(address, DEFAULT_SSH_PORT))
       ELSE Err(InvalidFormat)

parse(address) ==
    LET parts == split(address, ":")
    IN IF Len(parts) = 2
       THEN LET p == parse_u16(parts[2])
            IN IF p.tag = "Ok" THEN Ok(Address_new(parts[1], p.val)) ELSE Err(InvalidPort)
       ELSE IF Len(parts) = 1 THEN Ok(from_host(address))
       ELSE Err(InvalidFormat)

port_str(a) == IF a.port # None THEN to_string(a.port[1]) ELSE <<>>

fmt_port_str(a) == a.host \o <<":">> \o port_str(a)

fmt_suppress_default(a) ==
    IF a.port # None /\ a.port[1] # DEFAULT_SSH_PORT
    THEN a.host \o <<":">> \o to_string(a.port[1])
    ELSE a.host

fmt(a) ==
    IF a.port # None
    THEN a.host \o <<":">> \o to_string(a.port[1])
    ELSE a.host

serialize(a) == fmt(a)

visit_str(value) ==
    LET r == parse(value)
    IN IF r.tag = "Ok" THEN Ok(r.val)
       ELSE IF r.err = InvalidFormat THEN Err("invalid address format")
       ELSE Err("invalid port number")

deserialize(value) == visit_str(value)

-----------------------------------------------------------------------------
(* Address (address.rs): host and mandatory port, default 22.              *)

address_new(host, port) == [host |-> host, port |-> port]

address_parse(address) ==
    LET parts == split(address, ":")
    IN IF Len(parts) = 2
       THEN LET p == parse_u16(parts[2])
            IN IF p.tag = "Ok" THEN Ok(address_new(parts[1], p.val)) ELSE Err(InvalidPort)
       ELSE IF Len(parts) = 1 THEN Ok(address_new(address, DEFAULT_SSH_PORT))
       ELSE Err(InvalidFormat)

\* One iteration of the loop of parse_vec: push the parsed address and go
\* on, or return the element's error (the local vector is dropped).
parse_vec_elem_skip_invalid(res, elem) ==
    LET r == address_parse(elem)
    IN IF r.tag = "Ok"
       THEN [done |-> FALSE, result |-> Append(res, r.val), ret |-> None]
       ELSE [done |-> FALSE, result |-> res, ret |-> None]

parse_vec_elem(res, elem) ==
    LET r == address_parse(elem)
    IN IF r.tag = "Ok"
       THEN [done |-> FALSE, result |-> Append(res, r.val), ret |-> None]
       ELSE [done |-> TRUE, result |-> <<>>, ret |-> Some(Err(r.err))]

-----------------------------------------------------------------------------
(* SshParams::command (lib.rs).                                            *)

SSH == <<"s", "s", "h">>
OPT_NO_STRICT == <<"-", "o", "S", "t", "r", "i", "c", "t", "H", "o", "s", "t", "K", "e", "y", "C", "h", "e", "c", "k", "i", "n", "g", "=", "n", "o">>
OPT_NO_KNOWN_HOSTS == <<"-", "o", "U", "s", "e", "r", "K", "n", "o", "w", "n", "H", "o", "s", "t", "s", "F", "i", "l", "e", "=", "/", "d", "e", "v", "/", "n", "u", "l", "l">>
OPT_BATCH == <<"-", "o", "B", "a", "t", "c", "h", "M", "o", "d", "e", "=", "y", "e", "s">>
OPT_I == <<"-", "i">>
OPT_P == <<"-", "p">>

SshParams_default ==
    [address |-> [host |-> <<>>, port |-> None], identity |-> None, user |-> None,
     strict_host_key_checking |-> TRUE]

host_key_opts(p) ==
    IF ~p.strict_host_key_checking THEN <<OPT_NO_STRICT, OPT_NO_KNOWN_HOSTS>> ELSE <<>>

identity_opts(p) ==
    IF p.identity # None THEN <<OPT_I, p.identity[1]>> ELSE <<>>

port_opts_always(p) == <<OPT_P, port_str(p.address)>>

port_opts(p) ==
    IF p.address.port # None THEN <<OPT_P, to_string(p.address.port[1])>> ELSE <<>>

target_nonempty_user(p) ==
    IF p.user # None /\ p.user[1] # <<>>
    THEN p.user[1] \o <<"@">> \o p.address.host
    ELSE p.address.host

target(p) ==
    IF p.user # None
    THEN p.user[1] \o <<"@">> \o p.address.host
    ELSE p.address.host

command(p, a) ==
    LET o1 == <<SSH>>
        o2 == o1 \o host_key_opts(p)
        o3 == Append(o2, OPT_BATCH)
        o4 == o3 \o identity_opts(p)
        o5 == o4 \o port_opts(p)
        o6 == Append(o5, target(p))
    IN o6 \o a

-----------------------------------------------------------------------------
(* SshTarget::command (ssh.rs): identity, port and user are not optional.  *)

address_port_str(a) == to_string(a.port)

SshTarget_command(t, a) ==
    LET o1 == <<SSH>>
        o2 == o1 \o (IF ~t.strict_host_key_checking
                     THEN <<OPT_NO_STRICT, OPT_NO_KNOWN_HOSTS>> ELSE <<>>)
        o3 == o2 \o <<OPT_BATCH, OPT_I, t.identity, OPT_P, address_port_str(t.address),
                      t.user \o <<"@">> \o t.address.host>>
    IN o3 \o a

-----------------------------------------------------------------------------
(* Inputs.                                                                 *)

Alphabet == {"a", ":", "+", "0", "2"}
PortDigits == {"0", "3", "5", "6"}

Strings(S, lo, hi) == UNION {[1..k -> S] : k \in lo..hi}

\* Every text over Alphabet up to MaxLen, and "a:<digits>" for every digit
\* string up to MaxDigits (reaching the u16 boundary 65535 / 65536).
Inputs ==
    Strings(Alphabet, 0, MaxLen)
    \cup {<<"a", ":">> \o d : d \in Strings(PortDigits, 1, MaxDigits)}

Hosts == {<<>>, <<"a">>, <<"a", "b">>, <<"a", ":">>}
Ports == {0, 7, DEFAULT_SSH_PORT, 9222, U16_MAX}

Elems ==
    {<<"a">>, <<"b", ":", "9", "2", "2", "2">>, <<"b", ":", "a", "b", "c", "d">>,
     <<"a", ":", "1", ":", "2">>, <<>>, <<":", "2", "2">>}

Users == {None, Some(<<>>), Some(<<"m", "e">>)}
Identities == {None, Some(<<"/", "k">>)}
CmdHosts == {<<>>, <<"h">>}
CmdPorts == {None, Some(0), Some(DEFAULT_SSH_PORT), Some(9222), Some(U16_MAX)}
ArgTokens == {<<"x">>, OPT_P}

Params ==
    [address : [host : CmdHosts, port : CmdPorts], identity : Identities, user : Users,
     strict_host_key_checking : BOOLEAN]

-----------------------------------------------------------------------------
(* State machine of the Address operations (lib.rs).                       *)

\* An address under test is either still text to be parsed, or was built
\* with Address::new / Address::from_host.
Built == {Address_new(h, p) : h \in Hosts, p \in Ports} \cup {from_host(h) : h \in Hosts}

AddrIdle ==
    /\ input = None /\ parsed = None /\ addr = None
    /\ shown = None /\ token = None /\ decoded = None

CmdIdle == self = Some(SshParams_default) /\ args = <<>> /\ output = None

VecIdle == addresses = <<>> /\ idx = 0 /\ result = <<>> /\ ret = None

Init ==
    /\ \/ input \in {Some(s) : s \in Inputs} /\ addr = None
       \/ input = None /\ addr \in {Some(a) : a \in Built}
    /\ parsed = None /\ shown = None /\ token = None /\ decoded = None
    /\ CmdIdle /\ VecIdle

\* let r = Address::parse(s); on success the address is kept.
Parse ==
    /\ input # None /\ parsed = None
    /\ parsed' = Some(parse(input[1]))
    /\ addr' = IF parse(input[1]).tag = "Ok" THEN Some(parse(input[1]).val) ELSE None
    /\ UNCHANGED <<input, shown, token, decoded, cmdVars, vecVars>>

\* format!("{}", addr)
Display ==
    /\ addr # None /\ shown = None
    /\ shown' = Some(fmt(addr[1]))
    /\ UNCHANGED <<input, parsed, addr, token, decoded, cmdVars, vecVars>>

Serialize ==
    /\ addr # None /\ token = None
    /\ token' = Some(serialize(addr[1]))
    /\ UNCHANGED <<input, parsed, addr, shown, decoded, cmdVars, vecVars>>

Deserialize ==
    /\ token # None /\ decoded = None
    /\ decoded' = Some(deserialize(token[1]))
    /\ UNCHANGED <<input, parsed, addr, shown, token, cmdVars, vecVars>>

Next == Parse \/ Display \/ Serialize \/ Deserialize

Spec == Init /\ [][Next]_vars

-----------------------------------------------------------------------------
(* State machine of the command builder.                                   *)

\* SshParams { address, identity, user, strict_host_key_checking }
Configure ==
    \E p \in Params :
        /\ self' = Some(p) /\ args' = <<>> /\ output' = None
        /\ UNCHANGED <<addrVars, vecVars>>

\* self.command(&a)
Command ==
    \E a \in Strings(ArgTokens, 0, MaxArgs) :
        /\ args' = a
        /\ output' = Some(command(self[1], a))
        /\ UNCHANGED <<self, addrVars, vecVars>>

\* The same call on the ssh.rs variant of the struct, whose identity, port
\* and user fields always hold a value.
TargetCommand ==
    \E a \in Strings(ArgTokens, 0, MaxArgs) :
        /\ self[1].identity # None /\ self[1].user # None /\ self[1].address.port # None
        /\ args' = a
        /\ output' = Some(SshTarget_command(
                          [address |-> address_new(self[1].address.host, self[1].address.port[1]),
                           identity |-> self[1].identity[1],
                           user |-> self[1].user[1],
                           strict_host_key_checking |-> self[1].strict_host_key_checking], a))
        /\ UNCHANGED <<self, addrVars, vecVars>>

NextCmd == Configure \/ Command \/ TargetCommand

InitCmd == AddrIdle /\ CmdIdle /\ VecIdle

SpecCmd == InitCmd /\ [][NextCmd]_vars

-----------------------------------------------------------------------------
(* State machine of Address::parse_vec (address.rs), one loop iteration    *)
(* per step.  idx = 0: no call in progress; otherwise the index of the     *)
(* element the loop is at.                                                 *)

ParseVecCall ==
    \E list \in Strings(Elems, 0, MaxVec) :
        /\ idx = 0
        /\ addresses' = list /\ idx' = 1 /\ result' = <<>> /\ ret' = None
        /\ UNCHANGED <<addrVars, cmdVars>>

ParseVecElem ==
    /\ idx >= 1 /\ idx <= Len(addresses)
    /\ LET st == parse_vec_elem(result, addresses[idx])
       IN /\ result' = st.result
          /\ ret' = st.ret
          /\ idx' = IF st.done THEN 0 ELSE idx + 1
    /\ UNCHANGED <<addresses, addrVars, cmdVars>>

ParseVecReturn ==
    /\ idx = Len(addresses) + 1
    /\ ret' = Some(Ok(result)) /\ result' = <<>> /\ idx' = 0
    /\ UNCHANGED <<addresses, addrVars, cmdVars>>

NextVec == ParseVecCall \/ ParseVecElem \/ ParseVecReturn

InitVec == AddrIdle /\ CmdIdle /\ VecIdle

SpecVec == InitVec /\ [][NextVec]_vars

-----------------------------------------------------------------------------
(* Vocabulary of the properties, defined on the text alone.                *)

Colons(s) == {i \in 1..Len(s) : s[i] = ":"}

IsDecimal(d) == Len(d) >= 1 /\ \A i \in 1..Len(d) : IsDigit(d[i])

IsSignedDecimal(d) == IsDecimal(d) \/ (Len(d) >= 2 /\ d[1] = "+" /\ IsDecimal(Tail(d)))

Unsigned(d) == IF d # <<>> /\ d[1] = "+" THEN Tail(d) ELSE d

RECURSIVE DecimalValue(_)
DecimalValue(d) ==
    IF d = <<>> THEN 0
    ELSE 10 * DecimalValue(SubSeq(d, 1, Len(d) - 1)) + to_digit(d[Len(d)])

\* Digits only, no sign, no superfluous leading zero.
IsCanonicalDecimal(d) == IsDecimal(d) /\ (Len(d) = 1 \/ d[1] # "0")

BeforeColon(s) == SubSeq(s, 1, (CHOOSE k \in Colons(s) : \A j \in Colons(s) : k <= j) - 1)

AfterColon(s) == SubSeq(s, (CHOOSE k \in Colons(s) : \A j \in Colons(s) : k <= j) + 1, Len(s))

\* text is host, a colon, and the canonical decimal numeral of port.
IsHostPort(text, host, port) ==
    /\ Len(text) >= Len(host) + 2
    /\ SubSeq(text, 1, Len(host)) = host
    /\ text[Len(host) + 1] = ":"
    /\ IsCanonicalDecimal(SubSeq(text, Len(host) + 2, Len(text)))
    /\ DecimalValue(SubSeq(text, Len(host) + 2, Len(text))) = port

ParsedOk == parsed # None /\ parsed[1].tag = "Ok"

-----------------------------------------------------------------------------
(* C2: classification of the input of Address::parse by its colons.        *)

-----------------------------------------------------------------------------
(* C3: Display of an Address.                                              *)

\* C3 as stated: the rendering is the host alone when the port is absent or
\* is 22, and host:port otherwise.
C3_Original ==
    shown # None =>
        IF addr[1].port = None \/ addr[1].port = Some(DEFAULT_SSH_PORT)
        THEN shown[1] = addr[1].host
        ELSE IsHostPort(shown[1], addr[1].host, addr[1].port[1])

\* C3 amended: the rendering is the host alone exactly when the port is
\* absent, and host:port for every present port, 22 included; so a parsed
\* "h:22" renders as "h:22".
C3_DisplayKeepsPort ==
    shown # None =>
        IF addr[1].port = None
        THEN shown[1] = addr[1].host
        ELSE IsHostPort(shown[1], addr[1].host, addr[1].port[1])

C3_Witness ==
    /\ ParsedOk /\ shown # None
    /\ input[1] = <<"a", ":", "2", "2">>
    /\ shown[1] = <<"a", ":", "2", "2">>

-----------------------------------------------------------------------------
(* C4: render(parse(s)) = s.                                               *)

\* C4 as stated: the round trip holds for every text without a colon and
\* for every accepted text h:p whose port is not 22.
C4_Original ==
    (ParsedOk /\ shown # None) =>
        ((Colons(input[1]) = {} \/ parsed[1].val.port # Some(DEFAULT_SSH_PORT))
            => shown[1] = input[1])

\* C4 amended: the round trip holds for every text without a colon and for
\* every accepted text h:p whose port is not 22 and whose port text is the
\* canonical numeral (digits only, no '+', no superfluous leading zero).
C4_RoundTrip ==
    (ParsedOk /\ shown # None) =>
        ((\/ Colons(input[1]) = {}
          \/ /\ parsed[1].val.port # Some(DEFAULT_SSH_PORT)
             /\ IsCanonicalDecimal(AfterColon(input[1])))
            => shown[1] = input[1])

C4_Witness ==
    /\ ParsedOk /\ shown # None
    /\ input[1] = <<"a", ":", "6", "5", "5", "3", "5">>
    /\ shown[1] = input[1]

-----------------------------------------------------------------------------
(* C6: InvalidFormat.                                                      *)

\* C6: parse returns InvalidFormat exactly when the input is empty or has
\* more than one colon.
C6_Original ==
    parsed # None =>
        (parsed[1] = Err(InvalidFormat)
            <=> (input[1] = <<>> \/ Cardinality(Colons(input[1])) > 1))

-----------------------------------------------------------------------------
(* C7: the Address of a successful parse.                                  *)

\* C7 as stated: the host is non-empty and the port, when present, is in
\* 0..65535.
C7_Original ==
    ParsedOk =>
        /\ parsed[1].val.host # <<>>
        /\ parsed[1].val.port # None => parsed[1].val.port[1] \in 0..65535

\* C7 amended: the host is the input text before its first colon (the whole
\* input when it has none), hence colon-free and possibly empty, and the
\* port, when present, is in 0..65535.
C7_ParsedAddress ==
    ParsedOk =>
        /\ parsed[1].val.host =
              IF Colons(input[1]) = {} THEN input[1] ELSE BeforeColon(input[1])
        /\ Colons(parsed[1].val.host) = {}
        /\ parsed[1].val.port # None => parsed[1].val.port[1] \in 0..65535

C7_Witness ==
    /\ ParsedOk
    /\ input[1] = <<":", "2", "2">>
    /\ parsed[1].val = [host |-> <<>>, port |-> Some(22)]

-----------------------------------------------------------------------------
(* C9: serialize, then deserialize.                                        *)

-----------------------------------------------------------------------------
(* C1, C5: the argument vector of command().                               *)

Target == output[1][Len(output[1]) - Len(args)]

Without(seq, i, j) == SubSeq(seq, 1, i - 1) \o SubSeq(seq, j + 1, Len(seq))

\* C1: the vector is "ssh", the two host-key options iff strict checking is
\* off, the batch option, "-i" and the identity iff present, "-p" and the
\* decimal port iff present, one target token, then the caller's arguments
\* unmodified; turning strict checking on, or the port absent, removes just
\* the corresponding two tokens.
C1_CommandLayout ==
    output # None =>
        LET p == self[1]
            out == output[1]
            prefix == <<SSH>>
                      \o (IF p.strict_host_key_checking THEN <<>>
                          ELSE <<OPT_NO_STRICT, OPT_NO_KNOWN_HOSTS>>)
                      \o <<OPT_BATCH>>
                      \o (IF p.identity = None THEN <<>> ELSE <<OPT_I, p.identity[1]>>)
            n == Len(prefix)
            np == IF p.address.port = None THEN 0 ELSE 2
        IN /\ Len(out) = n + np + 1 + Len(args)
           /\ SubSeq(out, 1, n) = prefix
           /\ p.address.port # None =>
                 /\ out[n + 1] = OPT_P
                 /\ IsCanonicalDecimal(out[n + 2])
                 /\ DecimalValue(out[n + 2]) = p.address.port[1]
           /\ SubSeq(out, n + np + 2, Len(out)) = args
           /\ ~p.strict_host_key_checking =>
                 command([p EXCEPT !.strict_host_key_checking = TRUE], args) = Without(out, 2, 3)
           /\ p.address.port # None =>
                 command([p EXCEPT !.address.port = None], args) = Without(out, n + 1, n + 2)

C1_Witness ==
    /\ output # None
    /\ ~self[1].strict_host_key_checking
    /\ self[1].identity # None
    /\ self[1].address.port = Some(9222)
    /\ self[1].user = Some(<<"m", "e">>)
    /\ Len(args) = 2 /\ args[1] # args[2]
    /\ Len(output[1]) = 11

\* C5 as stated: the target token is user@host when the user is present and
\* non-empty, and the host alone when the user is absent or empty.
C5_Original ==
    output # None =>
        Target = IF self[1].user # None /\ self[1].user[1] # <<>>
                 THEN self[1].user[1] \o <<"@">> \o self[1].address.host
                 ELSE self[1].address.host

\* C5 amended: the target token is user@host whenever the user is present,
\* the empty user included (giving "@host"), and the host alone only when
\* the user is absent.
C5_TargetToken ==
    output # None =>
        Target = IF self[1].user # None
                 THEN self[1].user[1] \o <<"@">> \o self[1].address.host
                 ELSE self[1].address.host

C5_Witness ==
    /\ output # None
    /\ self[1].user = Some(<<>>)
    /\ self[1].address.host = <<"h">>
    /\ Target = <<"@", "h">>

-----------------------------------------------------------------------------
(* C8: parse_vec.                                                          *)

Invalid == {i \in 1..Len(addresses) : address_parse(addresses[i]).tag = "Err"}

\* C8: when every element parses, the call returns the parsed addresses in
\* input order and of input length; otherwise it returns the error of the
\* lowest-indexed invalid element and no list.
C8_ParseVecFailsFast ==
    ret # None =>
        IF Invalid = {}
        THEN /\ ret[1].tag = "Ok"
             /\ Len(ret[1].val) = Len(addresses)
             /\ \A i \in 1..Len(addresses) : Ok(ret[1].val[i]) = address_parse(addresses[i])
        ELSE /\ ret[1] = Err(address_parse(addresses[
                                CHOOSE i \in Invalid : \A j \in Invalid : i <= j]).err)
             /\ result = <<>>

C8_Witness ==
    /\ ret = Some(Err(InvalidPort))
    /\ Len(addresses) = 3
    /\ address_parse(addresses[1]).tag = "Ok"
    /\ address_parse(addresses[3]) = Err(InvalidFormat)

====
